---- MODULE Spec2Model ----
(***************************************************************************)
(* Model of the deleted-media backup tool (src/main.go): the admin-log    *)
(* scan loop of main, saveMedia, inputLocation, filenameFromDocument and  *)
(* sanitize.  Strings are sequences of one-character strings (bytes);     *)
(* the filesystem is a set of directories and a map from paths to files.  *)
(***************************************************************************)
EXTENDS Integers, Sequences, FiniteSets, TLC

VARIABLES
    input, output,      \* a pure function's argument and its results
    log,                \* the channel's admin log, newest event first
    run,                \* which run of the program this is
    pc,                 \* where main is: "request", "events", "download",
                        \* or ended: "done", "failed", "panic", "interrupted"
    maxID, total,       \* main's loop variables
    page, idx,          \* res.Events and the index of the event in hand
    cur,                \* saveMedia's locals while dl.Download runs
    dirs, files,        \* the filesystem: directories, and path -> file
    clock,              \* what time.Now().UnixNano() returns next
    sentMaxID,          \* history: MaxID of the latest page request
    prevPageLast,       \* history: ID of the last event of the latest non-empty page
    prevPageLen,        \* history: length of the latest non-empty page
    processed,          \* history: IDs of the events handled in this run
    lastSave,           \* history: what the latest saveMedia call returned
    fetches,            \* history: calls of dl.Download in this run
    lastFetch,          \* history: message -> how its latest download ended
    snap                \* history: how the previous run ended

pureVars == <<input, output>>

scanVars == <<log, run, pc, maxID, total, page, idx, cur, dirs, files, clock,
              sentMaxID, prevPageLast, prevPageLen, processed, lastSave,
              fetches, lastFetch, snap>>

vars == <<input, output, log, run, pc, maxID, total, page, idx, cur, dirs, files,
          clock, sentMaxID, prevPageLast, prevPageLen, processed, lastSave,
          fetches, lastFetch, snap>>

(***************************************************************************)
(* Strings                                                                 *)
(***************************************************************************)

\* A local variable of the source: e is computed once, where the variable is
\* assigned, and F is what follows with the variable standing for that value.
Bind(e, F(_)) == CHOOSE r \in {F(v) : v \in {e}} : TRUE

\* A Go string literal as a sequence of its bytes.
S(s) == [i \in 1..Len(s) |-> SubSeq(s, i, i)]

\* strings.Repeat(c, n) for a one-byte c.
Rep(c, n) == [i \in 1..n |-> c]

\* strings.ReplaceAll(s, old, new) for one-byte old and new.
ReplaceAll(s, old, new) ==
    Bind(s, LAMBDA t : [i \in 1..Len(t) |-> IF t[i] = old THEN new ELSE t[i]])

\* The decimal digits, fmt's %d of 0..9.
Digit(d) == SubSeq("0123456789", d + 1, d + 1)

RECURSIVE Dec(_)
\* fmt.Sprintf("%d", n) and strconv.FormatInt(n, 10).
Dec(n) ==
    IF n < 0 THEN <<"-">> \o Dec(-n)
    ELSE IF n < 10 THEN <<Digit(n)>>
    ELSE Dec(n \div 10) \o <<Digit(n % 10)>>

\* The ASCII letters strings.ToUpper maps.
Lower == S("abcdefghijklmnopqrstuvwxyz")
Upper == S("ABCDEFGHIJKLMNOPQRSTUVWXYZ")

\* strings.ToUpper, byte by byte.
ToUpper(s) ==
    Bind(s, LAMBDA t :
        [i \in 1..Len(t) |->
            IF \E k \in 1..26 : Lower[k] = t[i]
            THEN Upper[CHOOSE k \in 1..26 : Lower[k] = t[i]]
            ELSE t[i]])

\* strings.ToLower, byte by byte.
ToLower(s) ==
    Bind(s, LAMBDA t :
        [i \in 1..Len(t) |->
            IF \E k \in 1..26 : Upper[k] = t[i]
            THEN Lower[CHOOSE k \in 1..26 : Upper[k] = t[i]]
            ELSE t[i]])

\* strings.Trim(s, cutset): drop the leading and trailing bytes in cutset.
Trim(s, cutset) ==
    LET Kept(t, keep) ==
            IF keep = {} THEN <<>>
            ELSE SubSeq(t, CHOOSE i \in keep : \A j \in keep : i <= j,
                           CHOOSE i \in keep : \A j \in keep : i >= j)
        Cut(t) == Bind({i \in 1..Len(t) : t[i] \notin cutset}, LAMBDA keep : Kept(t, keep))
    IN  Bind(s, Cut)

\* The ASCII white space strings.TrimSpace cuts.
AsciiSpace == {" ", "\t", "\n", "\r", "\f"}

TrimSpace(s) == Trim(s, AsciiSpace)

\* filepath.Ext: the suffix from the last dot of the last path element, or "".
Ext(s) ==
    LET From(t, dots) ==
            IF dots = {} THEN <<>>
            ELSE SubSeq(t, CHOOSE i \in dots : \A j \in dots : i >= j, Len(t))
        Dots(t) == Bind({i \in 1..Len(t) : t[i] = "." /\ \A j \in i..Len(t) : t[j] # "/"},
                        LAMBDA dots : From(t, dots))
    IN  Bind(s, Dots)

(***************************************************************************)
(* sanitize                                                                *)
(***************************************************************************)

\* The control bytes of the replacer's table that the model's alphabet holds.
ControlChars == {"\t", "\n", "\r", "\f"}

\* strings.NewReplacer(...).Replace: one pass, each byte mapped by the table.
Replace(s) ==
    LET Sub(t) == [i \in 1..Len(t) |->
                      IF t[i] \in {":", "*", "?", "<", ">", "|"} THEN "_"
                      ELSE IF t[i] = "\"" THEN "'"
                      ELSE t[i]]
    IN  SelectSeq(Bind(s, Sub), LAMBDA c : c \notin ControlChars)

maxLen == 220

reservedNames ==
    { S("CON"), S("PRN"), S("AUX"), S("NUL") }
    \cup { S("COM") \o <<Digit(d)>> : d \in 1..9 }
    \cup { S("LPT") \o <<Digit(d)>> : d \in 1..9 }

\* The result of a call that may panic: panic TRUE means the process died in it.
\* via names the return statement taken: "empty" (line 424), "placeholder"
\* (line 466), "reserved" (line 479 ran before line 484) or "plain" (line 484).
\* ticks counts the reads of the clock.
Ret(s, via) ==
    [panic |-> FALSE, s |-> s, via |-> via, ticks |-> IF via = "placeholder" THEN 1 ELSE 0]
Panicked == [panic |-> TRUE, s |-> <<>>, via |-> "panic", ticks |-> 0]

\* Lines 447-461: the length cap.  base[:maxLen-len(ext)] with a negative bound
\* is a run-time panic (slice bounds out of range).
Truncate(sanitized) ==
    LET Hard(t) == Ret(IF Len(t) > maxLen THEN SubSeq(t, 1, maxLen) ELSE t, "plain")
        Cut(ext, base) ==
            IF Len(base) > maxLen - Len(ext)
            THEN IF maxLen - Len(ext) < 0
                 THEN Panicked
                 ELSE Hard(SubSeq(base, 1, maxLen - Len(ext)) \o ext)
            ELSE Hard(base \o ext)
        Capped(t) ==
            IF Len(t) > maxLen
            THEN Bind(Ext(t), LAMBDA ext : Cut(ext, SubSeq(t, 1, Len(t) - Len(ext))))
            ELSE Ret(t, "plain")
    IN  Bind(sanitized, Capped)

\* Lines 469-482: prepend "_" when the upper-cased name without its extension
\* is a reserved device name.
ReservedFix(sanitized) ==
    LET Check(t, baseName) ==
            IF baseName \in reservedNames
            THEN Ret(<<"_">> \o t, "reserved")
            ELSE Ret(t, "plain")
        Strip(t, upperSanitized, ext) ==
            Check(t, IF ext # <<>>
                     THEN SubSeq(upperSanitized, 1, Len(upperSanitized) - Len(ext))
                     ELSE upperSanitized)
        Upped(t) ==
            Bind(ToUpper(t), LAMBDA upperSanitized :
                Bind(Ext(upperSanitized), LAMBDA ext : Strip(t, upperSanitized, ext)))
    IN  Bind(sanitized, Upped)

\* sanitize(s), with now the value time.Now().UnixNano() would return.
sanitize(s, now) ==
    LET Tail2(t) ==
            IF t.panic THEN Panicked
            ELSE IF t.s = <<>> \/ t.s = S(".") \/ t.s = S("..")
                 THEN Ret(S("sanitized_file_") \o Dec(now), "placeholder")
                 ELSE ReservedFix(t.s)
        Body(t) ==
            IF t = <<>> THEN Ret(S("empty_filename"), "empty")
            ELSE Bind(Truncate(Trim(TrimSpace(Replace(
                          ReplaceAll(ReplaceAll(t, "/", "_"), "\\", "_"))), {"."})),
                      Tail2)
    IN  Bind(s, Body)

(***************************************************************************)
(* filenameFromDocument and inputLocation                                  *)
(***************************************************************************)

RECURSIVE Split(_, _)
\* strings.Split(s, sep) for a one-byte sep: the parts between the seps.
Split(s, sep) ==
    LET At(t, i) == <<SubSeq(t, 1, i - 1)>> \o Split(SubSeq(t, i + 1, Len(t)), sep)
        First(t, at) ==
            IF at = {} THEN <<t>> ELSE At(t, CHOOSE k \in at : \A j \in at : k <= j)
        Seps(t) == Bind({i \in 1..Len(t) : t[i] = sep}, LAMBDA at : First(t, at))
    IN  Bind(s, Seps)

\* Lines 402-415: the extension taken from the MIME type, "bin" by default.
MimeExt(mimeType) ==
    LET Valid(cleanedPart) ==
            IF /\ Len(cleanedPart) > 0
               /\ Len(cleanedPart) < 10
               /\ \A i \in 1..Len(cleanedPart) :
                    cleanedPart[i] \notin
                      {"/", "\\", ":", "*", "?", "\"", "<", ">", "|", " "}
            THEN cleanedPart
            ELSE S("bin")
        CutAt(lowered, semis) ==
            Bind(TrimSpace(IF semis = {} THEN lowered
                           ELSE SubSeq(lowered, 1,
                                  (CHOOSE i \in semis : \A j \in semis : i <= j) - 1)),
                 Valid)
        Lowered(lowered) ==
            Bind({i \in 1..Len(lowered) : lowered[i] = ";"},
                 LAMBDA semis : CutAt(lowered, semis))
        Parts(mimeParts) ==
            IF Len(mimeParts) = 2 /\ mimeParts[2] # <<>>
            THEN Bind(ToLower(mimeParts[2]), Lowered)
            ELSE S("bin")
    IN  Bind(Split(mimeType, "/"), Parts)

\* filenameFromDocument: the first non-empty filename attribute, sanitized, else
\* "<doc.ID>.<ext>", sanitized.
filenameFromDocument(doc, now) ==
    LET Named(named) ==
            sanitize(IF named # {}
                     THEN doc.attributes[CHOOSE i \in named : \A j \in named : i <= j].fileName
                     ELSE Dec(doc.id) \o <<".">> \o MimeExt(doc.mimeType),
                     now)
    IN  Bind({i \in 1..Len(doc.attributes) :
                 /\ doc.attributes[i].type = "DocumentAttributeFilename"
                 /\ doc.attributes[i].fileName # <<>>},
             Named)

\* max of lines 488-493.
max(a, b) == IF a > b THEN a ELSE b

\* The loop's variables before the first size: biggest is nil (0 stands for no
\* entry, else the index in photo.Sizes of the entry biggest was taken from).
NoBiggest == [biggest |-> 0, biggestType |-> <<>>, largestDim |-> 0]

\* One iteration of the loop of lines 334-365 on entry i.
SizeStep(sizes, i, st) ==
    LET Bigger(currentDim) ==
            IF currentDim > st.largestDim
            THEN [biggest |-> i, biggestType |-> sizes[i].type, largestDim |-> currentDim]
            ELSE st
    IN  IF sizes[i].variant \in {"PhotoSize", "PhotoSizeProgressive"}
        THEN Bigger(max(sizes[i].w, sizes[i].h))
        ELSE st

RECURSIVE SizeLoop(_, _)
\* The loop's variables after the first n entries.
SizeLoop(sizes, n) ==
    IF n = 0 THEN NoBiggest
    ELSE Bind(SizeLoop(sizes, n - 1), LAMBDA st : SizeStep(sizes, n, st))

\* The value inputLocation returns: err "nil" on success, loc the location
\* handed to the downloader, name the candidate file name.
Located(loc, name, ticks) ==
    [panic |-> FALSE, err |-> "nil", loc |-> loc, name |-> name, ticks |-> ticks]
LocateErr(err) == [panic |-> FALSE, err |-> err, loc |-> <<>>, name |-> <<>>, ticks |-> 0]
LocatePanic == [panic |-> TRUE, err |-> "panic", loc |-> <<>>, name |-> <<>>, ticks |-> 0]

errUnsupportedMedia == "unsupported media type"

\* Lines 317-384: the photo case.
photoLocation(photo) ==
    LET Chosen(st) ==
            IF st.biggest = 0 \/ st.biggestType = <<>>
            THEN LocateErr("no suitable photo sizes found")
            ELSE Located(<<"photo", photo.id, st.biggestType>>,
                         Dec(photo.id) \o <<"_">> \o st.biggestType \o S(".jpg"), 0)
    IN  IF photo.empty THEN LocateErr("photo is empty")
        ELSE Bind(SizeLoop(photo.sizes, Len(photo.sizes)), Chosen)

\* inputLocation(msg): the media's location and candidate file name.
inputLocation(media, now) ==
    IF media.kind = "MessageMediaDocument"
    THEN IF media.document.empty THEN LocateErr("document is empty")
         ELSE LET Named(name) ==
                      IF name.panic THEN LocatePanic
                      ELSE Located(<<"document", media.document.id, <<>> >>,
                                   name.s, name.ticks)
              IN  Bind(filenameFromDocument(media.document, now), Named)
    ELSE IF media.kind = "MessageMediaPhoto"
    THEN photoLocation(media.photo)
    ELSE LocateErr(errUnsupportedMedia)

(***************************************************************************)
(* saveMedia: the destination path                                         *)
(***************************************************************************)

\* fmt's %02d and %04d: n in decimal, zero-padded to width.
Pad(n, width) ==
    LET Padded(d) == IF Len(d) < width THEN Rep("0", width - Len(d)) \o d ELSE d
    IN  Bind(Dec(n), Padded)

\* time.Unix(date, 0).Format("20060102_150405"), the zone taken to be UTC:
\* the civil date of the day number, then the time of day.
FormatTime(date) ==
    LET Layout(y, m, d, secs) ==
            Pad(y, 4) \o Pad(m, 2) \o Pad(d, 2) \o <<"_">>
            \o Pad(secs \div 3600, 2) \o Pad((secs % 3600) \div 60, 2)
            \o Pad(secs % 60, 2)
        Month(yoe, era, doy, mp, m) ==
            Layout(yoe + era * 400 + (IF m <= 2 THEN 1 ELSE 0), m,
                   doy - (153 * mp + 2) \div 5 + 1, date % 86400)
        MonthP(yoe, era, doy, mp) ==
            Month(yoe, era, doy, mp, IF mp < 10 THEN mp + 3 ELSE mp - 9)
        DayOfYear(yoe, era, doy) == MonthP(yoe, era, doy, (5 * doy + 2) \div 153)
        YearOfEra(era, doe, yoe) ==
            DayOfYear(yoe, era, doe - (365 * yoe + yoe \div 4 - yoe \div 100))
        DayOfEra(era, doe) ==
            YearOfEra(era, doe,
                (doe - doe \div 1460 + doe \div 36524 - doe \div 146096) \div 365)
        Era(z, era) == DayOfEra(era, z - era * 146097)
        Days(z) == Era(z, z \div 146097)
    IN  Days(date \div 86400 + 719468)

RECURSIVE Clean(_, _)
\* filepath.Clean of a relative path, element by element: comps are the
\* elements still to read, acc the cleaned path so far.
Clean(comps, acc) ==
    LET Step(c) ==
            IF c = <<>> \/ c = S(".") THEN acc
            ELSE IF c = S("..") /\ acc # <<>> /\ acc[Len(acc)] # S("..")
                 THEN SubSeq(acc, 1, Len(acc) - 1)
                 ELSE Append(acc, c)
    IN  IF comps = <<>> THEN acc
        ELSE Bind(Step(Head(comps)), LAMBDA next : Clean(Tail(comps), next))

\* filepath.Join(dir, name): dir is a cleaned path (a sequence of elements),
\* name a string; the result is the cleaned path of dir + "/" + name.
Join(dir, name) ==
    Bind(dir, LAMBDA d : Bind(Split(name, "/"), LAMBDA comps : Clean(comps, d)))

mediaDir == S("media_backup")

\* Lines 237-250: the subdirectory's name.
subDirName(msg) ==
    IF msg.fromID.t = "PeerUser" THEN Dec(msg.fromID.id)
    ELSE IF msg.peerID.t = "PeerUser" THEN Dec(msg.peerID.id)
    ELSE IF msg.peerID.t = "PeerChat" THEN S("chat_") \o Dec(msg.peerID.id)
    ELSE IF msg.peerID.t = "PeerChannel" THEN S("channel_") \o Dec(msg.peerID.id)
    ELSE S("unknown_sender")

\* Lines 228-235: the leaf name, with the fallback for an empty file name.
baseFilename(msg, filename, now) ==
    FormatTime(msg.date) \o <<"_">>
    \o (IF filename = <<>>
        THEN Dec(msg.id) \o <<"_">> \o Dec(now) \o S(".dat")
        ELSE filename)

\* Line 251.
subDir(msg) == Join(Join(<<>>, mediaDir), subDirName(msg))

\* Line 259: the path of the leaf name in the subdirectory.
destPath(sd, leaf) == Join(sd, leaf)

\* os.Stat(path) returns no error: a file or a directory is there.
Exists(fs, ds, path) == path \in DOMAIN fs \/ path \in ds

\* os.MkdirAll(path): the directories it leaves when it succeeds.
MkdirAll(ds, path) == ds \cup {SubSeq(path, 1, n) : n \in 1..Len(path)}

\* Whether os.MkdirAll(path) can succeed: it does when the directory is there,
\* and it may fail when it has a directory to create.
MkdirOutcomes(ds, path) == IF path \in ds THEN {TRUE} ELSE BOOLEAN

\* The file the downloader holds at path while it writes, and when it is done.
\* msg is the message whose media the bytes are.
PutFile(fs, path, msg, complete) ==
    [q \in DOMAIN fs \cup {path} |->
        IF q = path THEN [msg |-> msg, complete |-> complete] ELSE fs[q]]

\* os.Remove(path).
Remove(fs, path) == [q \in DOMAIN fs \ {path} |-> fs[q]]

\* The history of downloads: how the latest one for the message msg ended.
Mark(lf, msg, how) == [m \in DOMAIN lf \cup {msg} |-> IF m = msg THEN how ELSE lf[m]]

(***************************************************************************)
(* saveMedia                                                               *)
(***************************************************************************)

\* What saveMedia has done when it returns or reaches dl.Download: at is
\* "panic", "return" or "download"; err is the error returned ("nil" for none),
\* how tells the nil returns apart; ds and now are the directories and the
\* clock it leaves.
Saved(at, err, how, ds, now, dest, leaf) ==
    [at |-> at, err |-> err, how |-> how, dirs |-> ds, clock |-> now,
     dest |-> dest, leaf |-> leaf]

\* saveMedia(msg) up to line 272.  mkBase and mkSub say whether os.MkdirAll
\* succeeds when it has a directory to create.
saveMedia(msg, ds, fs, now, mkBase, mkSub) ==
    LET \* lines 258-272, the subdirectory made
        Resolved(now2, ds2, leaf, dest) ==
            IF Exists(fs, ds2, dest)
            THEN Saved("return", "nil", "exists", ds2, now2, dest, leaf)
            ELSE Saved("download", "nil", "download", ds2, now2, dest, leaf)
        \* lines 228-256, the base directory made
        Named(now2, ds1, sd, leaf) ==
            IF sd \notin ds1 /\ ~mkSub
            THEN Saved("return", "failed to create subdirectory", "error",
                       ds1, now2, <<>>, leaf)
            ELSE Bind(destPath(sd, leaf),
                      LAMBDA dest : Resolved(now2, MkdirAll(ds1, sd), leaf, dest))
        \* lines 212-227
        Found(il, now1, base) ==
            IF il.panic THEN Saved("panic", "panic", "panic", ds, now, <<>>, <<>>)
            ELSE IF il.err = errUnsupportedMedia
                 THEN Saved("return", "nil", "unsupported", ds, now1, <<>>, <<>>)
            ELSE IF il.err # "nil"
                 THEN Saved("return", il.err, "error", ds, now1, <<>>, <<>>)
            ELSE IF base \notin ds /\ ~mkBase
                 THEN Saved("return", "failed to create base directory", "error",
                            ds, now1, <<>>, <<>>)
            ELSE Bind(subDir(msg), LAMBDA sd :
                     Bind(baseFilename(msg, il.name, now1), LAMBDA leaf :
                         Named(IF il.name = <<>> THEN now1 + 1 ELSE now1,
                               MkdirAll(ds, base), sd, leaf)))
        Located1(il) == Bind(Join(<<>>, mediaDir), LAMBDA base : Found(il, now + il.ticks, base))
    IN  Bind(inputLocation(msg.media, now), Located1)

(***************************************************************************)
(* The admin log and the messages of the model                             *)
(***************************************************************************)

PeerUser(id) == [t |-> "PeerUser", id |-> id]
PeerChannel(id) == [t |-> "PeerChannel", id |-> id]
NoPeer == [t |-> "nil", id |-> 0]

FilenameAttr(name) == [type |-> "DocumentAttributeFilename", fileName |-> name]
OtherAttr == [type |-> "DocumentAttributeVideo", fileName |-> <<>>]

Document(id, attributes, mimeType) ==
    [kind |-> "MessageMediaDocument",
     document |-> [empty |-> FALSE, id |-> id, attributes |-> attributes,
                   mimeType |-> mimeType]]
DocumentEmpty ==
    [kind |-> "MessageMediaDocument",
     document |-> [empty |-> TRUE, id |-> 0, attributes |-> <<>>, mimeType |-> <<>>]]

PhotoSizeOf(variant, type, w, h) == [variant |-> variant, type |-> type, w |-> w, h |-> h]
Photo(id, sizes) ==
    [kind |-> "MessageMediaPhoto", photo |-> [empty |-> FALSE, id |-> id, sizes |-> sizes]]
PhotoEmpty ==
    [kind |-> "MessageMediaPhoto", photo |-> [empty |-> TRUE, id |-> 0, sizes |-> <<>>]]

NoMedia == [kind |-> "nil"]
GeoMedia == [kind |-> "MessageMediaGeo"]

Message(id, date, fromID, peerID, media) ==
    [variant |-> "Message", id |-> id, date |-> date, fromID |-> fromID,
     peerID |-> peerID, media |-> media]
MessageService(id) ==
    [variant |-> "MessageService", id |-> id, date |-> 0, fromID |-> NoPeer,
     peerID |-> NoPeer, media |-> NoMedia]

DeleteMessage(msg) == [action |-> "DeleteMessage", message |-> msg]
OtherAction == [action |-> "ChangeTitle", message |-> MessageService(0)]

\* The deletions and other entries the model's logs are made of.  A message is
\* deleted once, so a log holds each entry at most once.
Catalogue ==
    << \* two messages of one sender, one second, one file name
       DeleteMessage(Message(1, 0, PeerUser(1), PeerChannel(5),
           Document(11, <<FilenameAttr(S("a.png"))>>, S("image/png")))),
       DeleteMessage(Message(2, 0, PeerUser(1), PeerChannel(5),
           Document(12, <<OtherAttr, FilenameAttr(S("a.png"))>>, S("image/png")))),
       \* a file name that sanitizes to nothing
       DeleteMessage(Message(3, 60, PeerUser(1), PeerChannel(5),
           Document(13, <<FilenameAttr(S(".."))>>, S("image/png")))),
       DeleteMessage(Message(4, 60, PeerUser(1), PeerChannel(5), DocumentEmpty)),
       \* photos: one whose size tag holds path separators, a usual one, one
       \* without a downloadable size
       DeleteMessage(Message(5, 3600, NoPeer, PeerChannel(5),
           Photo(15, << PhotoSizeOf("PhotoSize", S("/../../x"), 1, 1) >>))),
       DeleteMessage(Message(6, 3600, NoPeer, PeerUser(2),
           Photo(16, << PhotoSizeOf("PhotoStrippedSize", S("i"), 9, 9),
                        PhotoSizeOf("PhotoSize", S("m"), 3, 2),
                        PhotoSizeOf("PhotoSizeProgressive", S("y"), 2, 3) >>))),
       DeleteMessage(Message(7, 3600, NoPeer, PeerChannel(5),
           Photo(17, << PhotoSizeOf("PhotoCachedSize", S("c"), 9, 9) >>))),
       \* nothing to download
       DeleteMessage(Message(8, 3600, NoPeer, PeerChannel(5), GeoMedia)),
       DeleteMessage(Message(9, 3600, NoPeer, PeerChannel(5), NoMedia)),
       DeleteMessage(MessageService(10)),
       OtherAction,
       \* a file name whose extension is longer than maxLen
       DeleteMessage(Message(12, 60, PeerUser(1), PeerChannel(5),
           Document(18, <<FilenameAttr(S("a.") \o Rep("b", maxLen + 1))>>, S("a/b")))) >>

MaxLogLen == 2

\* The logs: n entries of the catalogue, in its order, newest first, the event
\* IDs falling from n to 1.
Logs ==
    { [i \in 1..Len(pick) |->
          [id |-> Len(pick) + 1 - i, action |-> Catalogue[pick[i]].action,
           message |-> Catalogue[pick[i]].message]] :
        pick \in { f \in UNION { [1..n -> 1..Len(Catalogue)] : n \in 0..MaxLogLen } :
                     \A i \in 1..Len(f), j \in 1..Len(f) : i < j => f[i] < f[j] } }

Limit == 100

\* What channels.getAdminLog holds for a request with MaxID m: the events
\* below m (all of them for m = 0), newest first.
Below(lg, m) == SelectSeq(lg, LAMBDA e : m = 0 \/ e.id < m)

(***************************************************************************)
(* main: the scan                                                          *)
(***************************************************************************)

NoSave == [ev |-> 0, msg |-> 0, err |-> "none", how |-> "none", dest |-> <<>>]
NoCur == [msg |-> 0, dest |-> <<>>, leaf |-> <<>>, sub |-> <<>>]
NoSnap == [prevDone |-> FALSE, prevClean |-> FALSE, prevFiles |-> {}, clean |-> TRUE]

Terminal == {"done", "failed", "panic", "interrupted"}

MaxRuns == 2

ScanInit ==
    /\ log \in Logs
    /\ run = 1
    /\ pc = "request"
    /\ maxID = 0
    /\ total = 0
    /\ page = <<>>
    /\ idx = 0
    /\ cur = NoCur
    /\ dirs = {<<>>}
    /\ files = <<>>
    /\ clock = 1
    /\ sentMaxID = 0
    /\ prevPageLast = 0
    /\ prevPageLen = 0
    /\ processed = {}
    /\ lastSave = NoSave
    /\ fetches = 0
    /\ lastFetch = <<>>
    /\ snap = NoSnap

Init == ScanInit /\ input = <<>> /\ output = <<>>

\* A scan that hands every deleted message to saveMedia, with media or not.
HasMediaUnchecked(ev) ==
    /\ ev.action = "DeleteMessage"
    /\ ev.message.variant = "Message"

\* Whether the event reaches saveMedia (lines 172-174).
HasMedia(ev) ==
    /\ ev.action = "DeleteMessage"
    /\ ev.message.variant = "Message"
    /\ ev.message.media.kind # "nil"

\* Line 163: the loop ends on a page without events.
NoMorePages(events) == Len(events) = 0

\* A scan that moves the cursor only in the branch that saves media.
CursorAfterMedia(ev, old) == IF HasMedia(ev) THEN ev.id ELSE old

\* Line 170: the cursor after the event ev.
CursorAfter(ev, old) == ev.id

\* Lines 142-166: one request for a page.  The server answers with an error,
\* or with at most Limit of the events below the cursor, at least one if any.
RequestPage ==
    /\ pc = "request"
    /\ sentMaxID' = maxID
    /\ prevPageLast' = IF page = <<>> THEN 0 ELSE page[Len(page)].id
    /\ prevPageLen' = Len(page)
    /\ \/ /\ pc' = "failed"
          /\ UNCHANGED <<page, idx>>
       \/ \E avail \in {Below(log, maxID)} :
            \E k \in 0..Len(avail) :
                /\ k <= Limit
                /\ (k = 0) = (avail = <<>>)
                /\ page' = SubSeq(avail, 1, k)
                /\ IF NoMorePages(page')
                   THEN pc' = "done" /\ idx' = 0
                   ELSE IF page' = <<>>
                   THEN pc' = "request" /\ idx' = 0   \* nothing to range over
                   ELSE pc' = "events" /\ idx' = 1
    /\ UNCHANGED <<input, output, log, run, maxID, total, cur, dirs, files, clock,
                   processed, lastSave, fetches, lastFetch, snap>>

\* Where the loops stand after the event at index i of the page.
NextPc(i) == IF i < Len(page) THEN "events" ELSE "request"
NextIdx(i) == IF i < Len(page) THEN i + 1 ELSE 0

\* A scan that returns saveMedia's error from the callback, as it does the
\* error of a page request.
AfterSaveAbort(err) ==
    /\ pc' = IF err = "nil" THEN NextPc(idx) ELSE "failed"
    /\ idx' = IF err = "nil" THEN NextIdx(idx) ELSE idx
    /\ total' = IF err = "nil" THEN total + 1 ELSE total
    /\ snap' = [snap EXCEPT !.clean = snap.clean /\ err = "nil"]

\* Lines 177-183: what main does with saveMedia's return value.
AfterSave(err) ==
    /\ pc' = NextPc(idx)
    /\ idx' = NextIdx(idx)
    /\ total' = IF err = "nil" THEN total + 1 ELSE total
    /\ snap' = [snap EXCEPT !.clean = snap.clean /\ err = "nil"]

\* Lines 169-190: one event of the page, up to the return of saveMedia or to
\* the start of its download.
ProcessEvent ==
    /\ pc = "events"
    /\ \E ev \in {page[idx]} :
           /\ maxID' = CursorAfter(ev, maxID)
           /\ processed' = processed \cup {ev.id}
           /\ IF ~HasMedia(ev)
              THEN /\ pc' = NextPc(idx)
                   /\ idx' = NextIdx(idx)
                   /\ UNCHANGED <<total, cur, dirs, files, clock, lastSave, fetches,
                                  lastFetch, snap>>
              ELSE \E mkBase \in MkdirOutcomes(dirs, Join(<<>>, mediaDir)),
                      mkSub \in MkdirOutcomes(dirs, subDir(ev.message)) :
                     \E r \in {saveMedia(ev.message, dirs, files, clock, mkBase, mkSub)} :
                     \E made \in {SubSeq(r.dest, 1, Len(r.dest) - 1) \in r.dirs} :
                         /\ dirs' = r.dirs
                         /\ clock' = r.clock
                         /\ IF r.at = "panic"
                            THEN /\ pc' = "panic"
                                 /\ UNCHANGED <<idx, total, cur, files, lastSave, fetches,
                                                lastFetch, snap>>
                            ELSE IF r.at = "return"
                            THEN /\ AfterSave(r.err)
                                 /\ lastSave' = [ev |-> ev.id, msg |-> ev.message.id,
                                                 err |-> r.err, how |-> r.how,
                                                 dest |-> r.dest]
                                 /\ UNCHANGED <<cur, files, fetches, lastFetch>>
                            ELSE IF made
                            THEN \* dl.Download creates the file and writes to it
                                 /\ pc' = "download"
                                 /\ cur' = [msg |-> ev.message.id, dest |-> r.dest,
                                            leaf |-> r.leaf, sub |-> subDir(ev.message)]
                                 /\ files' = PutFile(files, r.dest, ev.message.id, FALSE)
                                 /\ fetches' = fetches + 1
                                 /\ lastFetch' = Mark(lastFetch, ev.message.id, "running")
                                 /\ UNCHANGED <<idx, total, lastSave, snap>>
                            ELSE \* the file cannot be created: the download fails
                                 /\ AfterSave("download failed")
                                 /\ lastSave' = [ev |-> ev.id, msg |-> ev.message.id,
                                                 err |-> "download failed",
                                                 how |-> "error", dest |-> r.dest]
                                 /\ fetches' = fetches + 1
                                 /\ lastFetch' = Mark(lastFetch, ev.message.id, "failed")
                                 /\ UNCHANGED <<cur, files>>
    /\ UNCHANGED <<input, output, log, run, page, sentMaxID, prevPageLast, prevPageLen>>

\* Lines 275-286: the download ends well.
DownloadOK ==
    /\ pc = "download"
    /\ files' = PutFile(files, cur.dest, cur.msg, TRUE)
    /\ lastFetch' = Mark(lastFetch, cur.msg, "ok")
    /\ lastSave' = [ev |-> page[idx].id, msg |-> cur.msg, err |-> "nil",
                    how |-> "downloaded", dest |-> cur.dest]
    /\ AfterSave("nil")
    /\ cur' = NoCur
    /\ UNCHANGED <<input, output, log, run, maxID, page, dirs, clock, sentMaxID,
                   prevPageLast, prevPageLen, processed, fetches>>

\* What line 278 leaves of the filesystem after a failed download to path.
AfterFailedDownload(fs, path) == Remove(fs, path)

\* Lines 275-282: the download fails; the file is removed.
DownloadFail ==
    /\ pc = "download"
    /\ files' = AfterFailedDownload(files, cur.dest)
    /\ lastFetch' = Mark(lastFetch, cur.msg, "failed")
    /\ lastSave' = [ev |-> page[idx].id, msg |-> cur.msg, err |-> "download failed",
                    how |-> "error", dest |-> cur.dest]
    /\ AfterSave("download failed")
    /\ cur' = NoCur
    /\ UNCHANGED <<input, output, log, run, maxID, page, dirs, clock, sentMaxID,
                   prevPageLast, prevPageLen, processed, fetches>>

\* The process is killed.  main runs on context.Background() (line 25) and
\* handles no signal, so nothing is cleaned up: the process and its variables
\* are gone, and the filesystem is left as it is, with the file dl.Download
\* was writing straight to destPath (lines 270-275).
Interrupt ==
    /\ pc \notin Terminal
    /\ pc' = "interrupted"
    /\ maxID' = 0
    /\ total' = 0
    /\ page' = <<>>
    /\ idx' = 0
    /\ cur' = NoCur
    /\ sentMaxID' = 0
    /\ prevPageLast' = 0
    /\ prevPageLen' = 0
    /\ processed' = {}
    /\ lastSave' = NoSave
    /\ fetches' = 0
    /\ UNCHANGED <<input, output, log, run, dirs, files, clock, lastFetch, snap>>

\* The program is started again: main's variables are new, the filesystem and
\* the channel's log are as they were left.
Restart ==
    /\ pc \in Terminal
    /\ run < MaxRuns
    /\ run' = run + 1
    /\ pc' = "request"
    /\ maxID' = 0
    /\ total' = 0
    /\ page' = <<>>
    /\ idx' = 0
    /\ cur' = NoCur
    /\ sentMaxID' = 0
    /\ prevPageLast' = 0
    /\ prevPageLen' = 0
    /\ processed' = {}
    /\ lastSave' = NoSave
    /\ fetches' = 0
    /\ snap' = [prevDone |-> pc = "done", prevClean |-> snap.clean,
                prevFiles |-> DOMAIN files, clean |-> TRUE]
    /\ UNCHANGED <<input, output, log, dirs, files, clock, lastFetch>>

ScanStep == RequestPage \/ ProcessEvent \/ DownloadOK \/ DownloadFail

Next == RequestPage \/ ProcessEvent \/ DownloadOK \/ DownloadFail \/ Interrupt \/ Restart

Spec == Init /\ [][Next]_vars

\* The scan is one sequential control flow: while it has a step to take, it
\* takes it.  Nothing makes anyone interrupt it or start the program again.
FairSpec == Spec /\ WF_vars(ScanStep)

(***************************************************************************)
(* sanitize as a pure function: inputs drawn from bounded sets             *)
(***************************************************************************)

MaxStrLen == 3

SanAlphabet == {"a", "c", "o", "N", ".", " ", "/", "\\", ":", "\"", "\t"}

ShortStrings == UNION { [1..n -> SanAlphabet] : n \in 0..MaxStrLen }

\* Names around the length cap: a prefix, a run of one byte, a suffix.
LongStrings ==
    { p \o Rep("a", n) \o q :
        p \in {<<>>, S("coN."), S("a."), S("a ")},
        n \in (maxLen - 5)..(maxLen + 2),
        q \in {<<>>, S(".a"), S(".")} }

SanInputs == ShortStrings \cup LongStrings

Nows == {1, 2}

SanInit ==
    /\ input \in SanInputs
    /\ output = <<>>
    /\ ScanInit
    /\ log = <<>>

\* One call of sanitize, then one call on its result.
SanApply ==
    /\ Len(output) = 0
    /\ \E now \in Nows : output' = <<sanitize(input, now)>>
    /\ UNCHANGED input
    /\ UNCHANGED scanVars

SanApplyAgain ==
    /\ Len(output) = 1
    /\ ~output[1].panic
    /\ \E now \in Nows : output' = output \o <<sanitize(output[1].s, now)>>
    /\ UNCHANGED input
    /\ UNCHANGED scanVars

SanNext == SanApply \/ SanApplyAgain

SpecSanitize == SanInit /\ [][SanNext]_vars

(***************************************************************************)
(* inputLocation of a photo as a pure function                             *)
(***************************************************************************)

MaxSizes == 3

SizeEntries ==
    { PhotoSizeOf("PhotoSize", S(ty), d[1], d[2]) :
        ty \in {"s", "m"}, d \in {<<0, 0>>, <<1, 2>>, <<2, 1>>, <<3, 1>>} }
    \cup { PhotoSizeOf("PhotoSizeProgressive", S("y"), d[1], d[2]) :
        d \in {<<0, 0>>, <<1, 2>>, <<2, 1>>, <<3, 1>>} }
    \cup { PhotoSizeOf("PhotoCachedSize", S("c"), 9, 9),
           PhotoSizeOf("PhotoStrippedSize", S("i"), 9, 9),
           PhotoSizeOf("PhotoSize", <<>>, 4, 4) }

PhotoInputs ==
    { Photo(7, sizes) : sizes \in UNION { [1..n -> SizeEntries] : n \in 0..MaxSizes } }

LocInit ==
    /\ input \in PhotoInputs
    /\ output = <<>>
    /\ ScanInit
    /\ log = <<>>

LocApply ==
    /\ Len(output) = 0
    /\ \E now \in Nows : output' = <<inputLocation(input, now)>>
    /\ UNCHANGED input
    /\ UNCHANGED scanVars

LocNext == LocApply

SpecLocate == LocInit /\ [][LocNext]_vars

(***************************************************************************)
(* The claims                                                              *)
(***************************************************************************)

\* A saveMedia call returned an error in this step.
SaveFailedNow == lastSave' # lastSave /\ lastSave'.err \notin {"nil", "none"}

\* C1: when saveMedia fails for a message (empty document or photo, no photo
\* size, a directory that cannot be made, a failed download), the scan goes on
\* as after a success: the loops stand at the next event of the page, or at
\* the request for the next page, the page and the cursor are untouched; and a
\* scan that ends on the empty page has handled every event of the log.
C1_FailureContained ==
    /\ [][SaveFailedNow =>
            /\ pc' = NextPc(idx)
            /\ idx' = NextIdx(idx)
            /\ page' = page
            /\ maxID' = page[idx].id]_vars
    /\ [](pc = "done" => processed = {log[i].id : i \in 1..Len(log)})

\* A scan ended on the empty page after a saveMedia failure, a later download
\* that went well, and a later page.
C1_Witness ==
    /\ pc = "done"
    /\ ~snap.clean
    /\ lastSave.how = "downloaded"
    /\ Len(log) = 2
    /\ prevPageLen = 1

\* C2: the MaxID sent with a page request is the ID of the last event of the
\* page before it (0 with the first request), whatever that page's events were.
C2_CursorIsLastEvent == sentMaxID = prevPageLast

\* A second page was requested after a page that ended with an event that is
\* no deletion, and after one whose last message failed to download.
C2_Witness ==
    /\ pc = "events"
    /\ sentMaxID > 0
    /\ \E i \in 1..Len(log) : log[i].id = sentMaxID /\ ~HasMedia(log[i])

\* C3: every scan whose page requests are answered, and that nobody
\* interrupts, ends on a page without events, and a scan ends that way only
\* with no event of the log left below the cursor.
C3_ScanEnds ==
    /\ (pc = "request") ~> (pc \in {"done", "failed", "interrupted"})
    /\ [](pc = "done" => page = <<>> /\ Below(log, maxID) = <<>>)

\* C4: a second run over the same events, after a first run that ended on the
\* empty page with every saveMedia call returning nil, downloads nothing and
\* leaves the files of the first run.
C4_SecondRunIdle ==
    (run >= 2 /\ pc = "done" /\ snap.prevDone /\ snap.prevClean)
        => (fetches = 0 /\ DOMAIN files = snap.prevFiles)

\* C5: "already exists" is reported for a message only when the file at its
\* destination path holds that same message's media.
C5_ExistsOnlyForSameMessage ==
    lastSave.how = "exists"
        => /\ lastSave.dest \in DOMAIN files
           /\ files[lastSave.dest].msg = lastSave.msg

\* C6: the leaf name of a download holds no path separator, and the path
\* handed to the downloader is that leaf in the message's subdirectory.
C6_LeafInsideSubdir ==
    pc = "download"
        => /\ \A i \in 1..Len(cur.leaf) : cur.leaf[i] # "/"
           /\ cur.dest = Append(cur.sub, cur.leaf)

\* The name without its extension, as the reserved-name check takes it.
BaseNameOf(s) == SubSeq(s, 1, Len(s) - Len(Ext(s)))

\* C7: sanitize returns, and what it returns is not empty, holds no '/', no
\* '\' and no control character, is at most maxLen long, and is no reserved
\* device name before its extension.
C7_SanitizeSafe ==
    Len(output) >= 1
        => /\ ~output[1].panic
           /\ output[1].s # <<>>
           /\ \A i \in 1..Len(output[1].s) :
                 output[1].s[i] \notin {"/", "\\"} \cup ControlChars
           /\ Len(output[1].s) <= maxLen
           /\ BaseNameOf(ToUpper(output[1].s)) \notin reservedNames

\* C8: sanitize of a result of sanitize is that result, when neither call
\* returned a placeholder or prepended "_" to a reserved name.
C8_SanitizeIdempotent ==
    (Len(output) = 2 /\ output[1].via = "plain" /\ output[2].via = "plain")
        => output[2].s = output[1].s

\* The entries of a photo that have a location, and the first of the largest.
Resolvable(sizes) ==
    {i \in 1..Len(sizes) : sizes[i].variant \in {"PhotoSize", "PhotoSizeProgressive"}}
DimOf(e) == IF e.w > e.h THEN e.w ELSE e.h
FirstLargest(sizes) ==
    CHOOSE i \in Resolvable(sizes) :
        /\ \A j \in Resolvable(sizes) : DimOf(sizes[j]) <= DimOf(sizes[i])
        /\ \A j \in Resolvable(sizes) : j < i => DimOf(sizes[j]) < DimOf(sizes[i])

\* C9: inputLocation of a photo fails with "no suitable photo sizes" exactly
\* when the photo has no PhotoSize or PhotoSizeProgressive entry; otherwise it
\* takes the first of the entries with the largest max(w, h) among those, and
\* names the file "<photo id>_<its type>.jpg".
C9_LargestSizeChosen ==
    Len(output) = 1
        => IF Resolvable(input.photo.sizes) = {}
           THEN output[1].err = "no suitable photo sizes found"
           ELSE /\ output[1].err = "nil"
                /\ output[1].loc[3] =
                      input.photo.sizes[FirstLargest(input.photo.sizes)].type
                /\ output[1].name =
                      Dec(input.photo.id) \o <<"_">>
                      \o input.photo.sizes[FirstLargest(input.photo.sizes)].type
                      \o S(".jpg")

\* A saveMedia call returned the error of a failed download in this step.
FetchFailedNow == lastSave' # lastSave /\ lastSave'.err = "download failed"

\* C10: when saveMedia returns after a failed download, no file is at the
\* destination path; and "already exists" is not reported for a message whose
\* latest download failed.
C10_FailedDownloadLeavesNoFile ==
    /\ [][FetchFailedNow => lastSave'.dest \notin DOMAIN files']_vars
    /\ []((lastSave.how = "exists" /\ lastSave.msg \in DOMAIN lastFetch)
            => lastFetch[lastSave.msg] # "failed")

\* A saveMedia call returned the error of os.MkdirAll(mediaDir) in this step.
BaseDirFailedNow ==
    lastSave' # lastSave /\ lastSave'.err = "failed to create base directory"

\* The run ends in this step other than on the empty page.
AbortedNow == pc \notin {"failed", "panic"} /\ pc' \in {"failed", "panic"}

\* C11: the run is aborted when the base directory cannot be created and when
\* a page request fails, and by nothing else: after any other failure of
\* saveMedia the scan stands at the next event or the next page request.
C11_OnlyTwoFatal ==
    /\ [][BaseDirFailedNow => pc' = "failed"]_vars
    /\ [][AbortedNow => (pc = "request" \/ BaseDirFailedNow)]_vars
    /\ [][(SaveFailedNow /\ ~BaseDirFailedNow) => pc' = NextPc(idx)]_vars

\* The events the scan passes over: no delete-message action, a service
\* message, a message without media.
Skipped(ev) ==
    \/ ev.action # "DeleteMessage"
    \/ ev.message.variant = "MessageService"
    \/ ev.message.media.kind = "nil"

\* The loop body runs for the event in hand in this step.
HandledNow == pc = "events" /\ page[idx].id \in processed' \ processed

\* C12: the step that handles a passed-over event calls neither saveMedia nor
\* the downloader and leaves the filesystem as it is; the cursor is the
\* event's ID and the loops stand at the next event or the next page request.
C12_SkippedEventsTouchNothing ==
    [][(HandledNow /\ Skipped(page[idx]))
          => /\ UNCHANGED <<dirs, files, clock, cur, lastSave, fetches, lastFetch, total>>
             /\ maxID' = page[idx].id
             /\ pc' = NextPc(idx)
             /\ idx' = NextIdx(idx)]_vars

\* A page of two events: the first, passed over, is handled and the cursor is
\* its ID; the scan stands at the second.
C12_Witness ==
    /\ pc = "events"
    /\ idx = 2
    /\ Skipped(page[1])
    /\ maxID = page[1].id
    /\ files = <<>>

\* C13: outside a download every file is a completely fetched one, runs ended
\* by an interruption included; and "already exists" is reported only for a
\* complete file.
C13_FilesAreComplete ==
    /\ pc # "download" => \A p \in DOMAIN files : files[p].complete
    /\ (lastSave.how = "exists" /\ lastSave.dest \in DOMAIN files)
          => files[lastSave.dest].complete

====
